---- MODULE Spec2Model ----
(***************************************************************************)
(* A model of scripts/analyze_doc.py: the single-shot pipeline that turns  *)
(* a document into stories.json through one call to a language model.      *)
(*                                                                         *)
(* Texts (Python str) are sequences of characters.  A character is a       *)
(* one-character string, except for the two characters a TLA+ string       *)
(* literal cannot hold, which are named: BT is the backtick and ENDASH the *)
(* en dash of the built-in guidance texts.                                 *)
(*                                                                         *)
(* Python values (the result of json.loads, the schema yaml.safe_load      *)
(* returns, None) are records [t |-> tag, v |-> payload]:                  *)
(*   "none"  v = << >>                 None / JSON null                    *)
(*   "bool"  v = <<"true">> or <<"false">>                                 *)
(*   "num"   v = the digits                                                *)
(*   "str"   v = the characters                                            *)
(*   "arr"   v = the elements                                              *)
(*   "obj"   v = the <<key characters, value>> pairs in insertion order,   *)
(*               keys distinct (a Python dict)                             *)
(***************************************************************************)
EXTENDS Naturals, Sequences, FiniteSets, TLC

VARIABLES
    pc,             \* the statement of main() about to run, or "exit"
    outcome,        \* how the process ended: "running", "ok", a sys.exit, an exception
    trace,          \* the stages of main() executed so far, oldest first
    input_exists,   \* os.path.exists(args.input)
    schema_exists,  \* os.path.exists(SCHEMA_FILE)
    env,            \* os.environ restricted to AI_MODEL and the credential keys
    schema,         \* main's local: the loaded schema
    model,          \* main's local: the resolved model string
    document,       \* main's local: the text of the input document
    prompts,        \* main's locals: <<system_prompt, user_prompt>>
    raw_response,   \* main's local: what call_ai returned
    data,           \* main's local: what extract_json returned
    message,        \* the argument of the sys.exit that ended the run
    printed,        \* the warning lines validate_structure printed
    stories_json,   \* the content of OUTPUT_FILE
    completions,    \* the number of litellm.completion calls made
    reply           \* what the language model did: <<"json", the value it
                    \* serialised, the style, the wrapper>>, <<"text", the prose
                    \* it wrote, "", the wrapper>>, <<"error", ...>> for a
                    \* failed call, <<"empty", ...>> for an answer without
                    \* content, <<"none", ...>> before the call

vars == <<pc, outcome, trace, input_exists, schema_exists, env, schema, model,
          document, prompts, raw_response, data, message, printed,
          stories_json, completions, reply>>

----------------------------------------------------------------------------
(* Characters and texts *)

BT == "<backtick>"
ENDASH == "<en-dash>"

\* str.isspace / the regular expression class \s, over the modelled alphabet
IsSpace(c) == c \in {" ", "\t", "\n", "\r", "\f"}

RECURSIVE SkipSpace(_, _)
\* the first index at or after i that holds no whitespace (Len(s) + 1 if none)
SkipSpace(s, i) ==
    IF i <= Len(s) /\ IsSpace(s[i]) THEN SkipSpace(s, i + 1) ELSE i

RECURSIVE SkipSpaceBack(_, _)
\* the last index at or before i that holds no whitespace (0 if none)
SkipSpaceBack(s, i) ==
    IF i >= 1 /\ IsSpace(s[i]) THEN SkipSpaceBack(s, i - 1) ELSE i

\* str.strip()
Strip(s) == SubSeq(s, SkipSpace(s, 1), SkipSpaceBack(s, Len(s)))

\* s[i:i+len(w)] == w
HasAt(s, i, w) ==
    /\ i >= 1
    /\ i + Len(w) - 1 <= Len(s)
    /\ SubSeq(s, i, i + Len(w) - 1) = w

\* s[:n]
Prefix(s, n) == SubSeq(s, 1, IF Len(s) < n THEN Len(s) ELSE n)

RECURSIVE Join(_, _)
\* sep.join(parts)
Join(sep, parts) ==
    IF parts = << >> THEN << >>
    ELSE IF Len(parts) = 1 THEN parts[1]
    ELSE parts[1] \o sep \o Join(sep, Tail(parts))

----------------------------------------------------------------------------
(* Python values *)

None == [t |-> "none", v |-> << >>]
Str(s) == [t |-> "str", v |-> s]
Arr(xs) == [t |-> "arr", v |-> xs]
Obj(ps) == [t |-> "obj", v |-> ps]

\* key in d, for a dict d
HasKey(d, k) == \E i \in 1..Len(d.v) : d.v[i][1] = k

\* d[key], for a dict d holding the key
Lookup(d, k) == d.v[CHOOSE i \in 1..Len(d.v) : d.v[i][1] = k][2]

\* d.get(key, default), for a dict d
Get(d, k, default) == IF HasKey(d, k) THEN Lookup(d, k) ELSE default

\* d[key] = value: a new key is appended, an old one keeps its place
DictSet(d, k, val) ==
    IF HasKey(d, k)
    THEN Obj([i \in 1..Len(d.v) |->
                 IF d.v[i][1] = k THEN <<k, val>> ELSE d.v[i]])
    ELSE Obj(Append(d.v, <<k, val>>))

\* list(d.keys())
Keys(d) == [i \in 1..Len(d.v) |-> d.v[i][1]]

\* bool(x)
Truthy(x) ==
    CASE x.t = "none" -> FALSE
      [] x.t = "bool" -> x.v = <<"true">>
      [] x.t = "num"  -> x.v # <<"0">>
      [] OTHER        -> x.v # << >>

----------------------------------------------------------------------------
(* json.loads and json.dump (the standard decoder and encoder, on the      *)
(* modelled alphabet: objects, arrays, strings with the simple escapes,    *)
(* non-negative integers without fraction or exponent, true, false, null). *)
(* A position is the 1-based index of a character.                         *)

Ok(val, end) == [ok |-> TRUE, val |-> val, end |-> end, msg |-> ""]
Fail(msg, pos) == [ok |-> FALSE, val |-> None, end |-> pos, msg |-> msg]

Digits == {"0", "1", "2", "3", "4", "5", "6", "7", "8", "9"}
ControlChars == {"\t", "\n", "\r", "\f"}
NullText == <<"n", "u", "l", "l">>
TrueText == <<"t", "r", "u", "e">>
FalseText == <<"f", "a", "l", "s", "e">>

\* the character a backslash escape stands for, << >> for none
Unescape(c) ==
    CASE c = "\"" -> <<"\"">>
      [] c = "\\" -> <<"\\">>
      [] c = "/"  -> <<"/">>
      [] c = "n"  -> <<"\n">>
      [] c = "t"  -> <<"\t">>
      [] c = "r"  -> <<"\r">>
      [] c = "f"  -> <<"\f">>
      [] OTHER    -> << >>

RECURSIVE ScanString(_, _, _, _)
\* py_scanstring: s[begin] is the opening quote, i the next character to
\* read, acc the characters decoded so far
ScanString(s, begin, i, acc) ==
    IF i > Len(s) THEN Fail("Unterminated string starting at", begin)
    ELSE IF s[i] = "\"" THEN Ok(Str(acc), i + 1)
    ELSE IF s[i] \in ControlChars THEN Fail("Invalid control character at", i)
    ELSE IF s[i] # "\\" THEN ScanString(s, begin, i + 1, Append(acc, s[i]))
    ELSE IF i + 1 > Len(s) THEN Fail("Unterminated string starting at", begin)
    ELSE IF HasAt(s, i + 1, <<"u", "2", "0", "1", "3">>)
         THEN ScanString(s, begin, i + 6, Append(acc, ENDASH))
    ELSE IF Unescape(s[i + 1]) # << >>
         THEN ScanString(s, begin, i + 2, acc \o Unescape(s[i + 1]))
    ELSE Fail("Invalid \\escape", i)

RECURSIVE SkipDigits(_, _)
SkipDigits(s, i) ==
    IF i <= Len(s) /\ s[i] \in Digits THEN SkipDigits(s, i + 1) ELSE i

RECURSIVE ParseValue(_, _)
RECURSIVE ParseElems(_, _, _)
RECURSIVE ParseMembers(_, _, _)

\* JSONArray's loop: j is where the next element starts, acc the elements so far
ParseElems(s, j, acc) ==
    LET r == ParseValue(s, j) IN
    IF ~r.ok THEN r
    ELSE LET k == SkipSpace(s, r.end) IN
         IF k <= Len(s) /\ s[k] = "]" THEN Ok(Arr(Append(acc, r.val)), k + 1)
         ELSE IF k <= Len(s) /\ s[k] = ","
              THEN ParseElems(s, SkipSpace(s, k + 1), Append(acc, r.val))
         ELSE Fail("Expecting ',' delimiter", k)

\* JSONObject's loop: j is where the next key must start, acc the dict so far
ParseMembers(s, j, acc) ==
    IF ~(j <= Len(s) /\ s[j] = "\"")
    THEN Fail("Expecting property name enclosed in double quotes", j)
    ELSE LET key == ScanString(s, j, j + 1, << >>) IN
         IF ~key.ok THEN key
         ELSE LET c == SkipSpace(s, key.end) IN
              IF ~(c <= Len(s) /\ s[c] = ":")
              THEN Fail("Expecting ':' delimiter", c)
              ELSE LET r == ParseValue(s, SkipSpace(s, c + 1)) IN
                   IF ~r.ok THEN r
                   ELSE LET k == SkipSpace(s, r.end)
                            d == DictSet(acc, key.val.v, r.val)
                        IN  IF k <= Len(s) /\ s[k] = "}" THEN Ok(d, k + 1)
                            ELSE IF k <= Len(s) /\ s[k] = ","
                                 THEN ParseMembers(s, SkipSpace(s, k + 1), d)
                            ELSE Fail("Expecting ',' delimiter", k)

\* the scanner's scan_once at position i
ParseValue(s, i) ==
    IF i > Len(s) THEN Fail("Expecting value", i)
    ELSE IF s[i] = "\"" THEN ScanString(s, i, i + 1, << >>)
    ELSE IF s[i] = "{"
         THEN LET j == SkipSpace(s, i + 1) IN
              IF j <= Len(s) /\ s[j] = "}" THEN Ok(Obj(<< >>), j + 1)
              ELSE ParseMembers(s, j, Obj(<< >>))
    ELSE IF s[i] = "["
         THEN LET j == SkipSpace(s, i + 1) IN
              IF j <= Len(s) /\ s[j] = "]" THEN Ok(Arr(<< >>), j + 1)
              ELSE ParseElems(s, j, << >>)
    ELSE IF HasAt(s, i, NullText) THEN Ok(None, i + 4)
    ELSE IF HasAt(s, i, TrueText) THEN Ok([t |-> "bool", v |-> <<"true">>], i + 4)
    ELSE IF HasAt(s, i, FalseText) THEN Ok([t |-> "bool", v |-> <<"false">>], i + 5)
    ELSE IF s[i] = "0" THEN Ok([t |-> "num", v |-> <<"0">>], i + 1)
    ELSE IF s[i] \in Digits
         THEN LET e == SkipDigits(s, i) IN
              Ok([t |-> "num", v |-> SubSeq(s, i, e - 1)], e)
    ELSE Fail("Expecting value", i)

\* json.loads(s): one value, whitespace around it allowed, nothing else
Loads(s) ==
    LET r == ParseValue(s, SkipSpace(s, 1)) IN
    IF ~r.ok THEN r
    ELSE LET e == SkipSpace(s, r.end) IN
         IF e <= Len(s) THEN Fail("Extra data", e) ELSE r

\* the encoder's escape of one character of a string (ensure_ascii)
EscapeChar(c) ==
    CASE c = "\"" -> <<"\\", "\"">>
      [] c = "\\" -> <<"\\", "\\">>
      [] c = "\n" -> <<"\\", "n">>
      [] c = "\t" -> <<"\\", "t">>
      [] c = "\r" -> <<"\\", "r">>
      [] c = "\f" -> <<"\\", "f">>
      [] c = ENDASH -> <<"\\", "u", "2", "0", "1", "3">>
      [] OTHER    -> <<c>>

EncodeString(s) ==
    <<"\"">> \o Join(<< >>, [i \in 1..Len(s) |-> EscapeChar(s[i])]) \o <<"\"">>

Indent == 2

\* the line break and indentation json.dump(indent=2) writes at a nesting level
NewLine(level) == <<"\n">> \o [i \in 1..(Indent * level) |-> " "]

RECURSIVE Dump(_, _)
\* json.dump(value, f, indent=2): the text written for a value at a level
Dump(x, level) ==
    CASE x.t = "none" -> NullText
      [] x.t = "bool" -> IF x.v = <<"true">> THEN TrueText ELSE FalseText
      [] x.t = "num"  -> x.v
      [] x.t = "str"  -> EncodeString(x.v)
      [] x.t = "arr"  ->
            IF x.v = << >> THEN <<"[", "]">>
            ELSE <<"[">> \o NewLine(level + 1)
                 \o Join(<<",">> \o NewLine(level + 1),
                         [i \in 1..Len(x.v) |-> Dump(x.v[i], level + 1)])
                 \o NewLine(level) \o <<"]">>
      [] x.t = "obj"  ->
            IF x.v = << >> THEN <<"{", "}">>
            ELSE <<"{">> \o NewLine(level + 1)
                 \o Join(<<",">> \o NewLine(level + 1),
                         [i \in 1..Len(x.v) |->
                             EncodeString(x.v[i][1]) \o <<":", " ">>
                             \o Dump(x.v[i][2], level + 1)])
                 \o NewLine(level) \o <<"}">>

----------------------------------------------------------------------------
(* The dictionary keys the program reads *)

K_epics ==
    <<"e", "p", "i", "c", "s">>

K_stories ==
    <<"s", "t", "o", "r", "i", "e", "s">>

K_priority ==
    <<"p", "r", "i", "o", "r", "i", "t", "y">>

K_short_description ==
    <<"s", "h", "o", "r", "t", "_", "d", "e", "s", "c", "r", "i", "p", "t",
      "i", "o", "n">>

K_key ==
    <<"k", "e", "y">>

K_gap_id ==
    <<"g", "a", "p", "_", "i", "d">>

K_ai ==
    <<"a", "i">>

K_instructions ==
    <<"i", "n", "s", "t", "r", "u", "c", "t", "i", "o", "n", "s">>

K_priorities ==
    <<"p", "r", "i", "o", "r", "i", "t", "i", "e", "s">>

K_guidance ==
    <<"g", "u", "i", "d", "a", "n", "c", "e">>

K_label ==
    <<"l", "a", "b", "e", "l">>

K_grouping ==
    <<"g", "r", "o", "u", "p", "i", "n", "g">>

K_story_format ==
    <<"s", "t", "o", "r", "y", "_", "f", "o", "r", "m", "a", "t">>

K_description_format ==
    <<"d", "e", "s", "c", "r", "i", "p", "t", "i", "o", "n", "_", "f", "o",
      "r", "m", "a", "t">>

K_acceptance_criteria ==
    <<"a", "c", "c", "e", "p", "t", "a", "n", "c", "e", "_", "c", "r", "i",
      "t", "e", "r", "i", "a">>

----------------------------------------------------------------------------
(* How a function ends: it returns a value, calls sys.exit with a message, *)
(* or lets an exception escape.  A sys.exit message is <<what, exc,        *)
(* excerpt>>: the fixed text, the decoder error it quotes (<<msg, pos>>,   *)
(* << >> for none) and the response excerpt it quotes.                     *)

Return(x) == [kind |-> "return", value |-> x]
SysExit(what, exc, excerpt) ==
    [kind |-> "exit", value |-> [t |-> "msg", v |-> <<what, exc, excerpt>>]]
Raise(e) == [kind |-> "raise", value |-> [t |-> "exc", v |-> <<e>>]]

\* str(x) as an f-string renders it (strings and None; other values are not
\* rendered within the bounds and are shown by their tag)
PyStr(x) ==
    CASE x.t = "str"  -> x.v
      [] x.t = "none" -> <<"N", "o", "n", "e">>
      [] OTHER        -> <<"<", x.t, ">">>

\* iter(x) succeeds: a list, a str and a dict can be looped over
Iterable(x) == x.t \in {"arr", "str", "obj"}

\* what a for loop over x visits: the elements of a list, the characters
\* of a str, the keys of a dict
Items(x) ==
    CASE x.t = "arr" -> x.v
      [] x.t = "str" -> [i \in 1..Len(x.v) |-> Str(<<x.v[i]>>)]
      [] x.t = "obj" -> [i \in 1..Len(x.v) |-> Str(x.v[i][1])]

\* hash(x) succeeds: lists and dicts are unhashable
Hashable(x) == x.t \notin {"arr", "obj"}

----------------------------------------------------------------------------
(* resolve_model.  The environment maps each variable name to             *)
(* [set |-> whether it is defined, v |-> its text].                        *)

\* _MODEL_DEFAULTS: (env key, default model), in detection order
MODEL_DEFAULTS ==
    << <<"ANTHROPIC_API_KEY",
         <<"c", "l", "a", "u", "d", "e", "-", "s", "o", "n", "n", "e", "t",
           "-", "4", "-", "6">>>>,
       <<"OPENAI_API_KEY",
         <<"g", "p", "t", "-", "4", "o">>>>,
       <<"GEMINI_API_KEY",
         <<"g", "e", "m", "i", "n", "i", "/", "g", "e", "m", "i", "n", "i",
           "-", "1", ".", "5", "-", "p", "r", "o">>>>,
       <<"AZURE_API_KEY",
         <<"a", "z", "u", "r", "e", "/", "g", "p", "t", "-", "4", "o">>>>,
       <<"MISTRAL_API_KEY",
         <<"m", "i", "s", "t", "r", "a", "l", "/", "m", "i", "s", "t", "r",
           "a", "l", "-", "l", "a", "r", "g", "e", "-", "l", "a", "t", "e",
           "s", "t">>>>,
       <<"COHERE_API_KEY",
         <<"c", "o", "m", "m", "a", "n", "d", "-", "r", "-", "p", "l", "u",
           "s">>>> >>

EnvNames == {"AI_MODEL"} \cup {MODEL_DEFAULTS[i][1] : i \in 1..Len(MODEL_DEFAULTS)}

\* os.getenv(key, default)
Getenv(e, key, default) == IF e[key].set THEN e[key].v ELSE default

RECURSIVE DetectModelUnstripped(_, _)
\* the loop taking a credential that is set but blank for a present one
DetectModelUnstripped(e, i) ==
    IF i > Len(MODEL_DEFAULTS)
    THEN SysExit("Could not determine which AI model to use.", << >>, << >>)
    ELSE IF Getenv(e, MODEL_DEFAULTS[i][1], << >>) # << >>
         THEN Return(Str(MODEL_DEFAULTS[i][2]))
         ELSE DetectModelUnstripped(e, i + 1)

RECURSIVE DetectModel(_, _)
\* the loop over _MODEL_DEFAULTS from entry i on, then the sys.exit
DetectModel(e, i) ==
    IF i > Len(MODEL_DEFAULTS)
    THEN SysExit("Could not determine which AI model to use.", << >>, << >>)
    ELSE IF Strip(Getenv(e, MODEL_DEFAULTS[i][1], << >>)) # << >>
         THEN Return(Str(MODEL_DEFAULTS[i][2]))
         ELSE DetectModel(e, i + 1)

resolve_model(e) ==
    LET explicit == Strip(Getenv(e, "AI_MODEL", << >>)) IN
    IF explicit # << >> THEN Return(Str(explicit)) ELSE DetectModel(e, 1)

----------------------------------------------------------------------------
(* build_prompt.  The system prompt is kept as its sections in order, each *)
(* <<the literal heading, the text interpolated under it>>; the user       *)
(* prompt as <<start delimiter, document, end delimiter>>.                 *)

\* the built-in guidance texts of build_prompt
DEFAULT_GROUPING ==
    <<"G", "r", "o", "u", "p", " ", "r", "e", "l", "a", "t", "e", "d", " ",
      "i", "t", "e", "m", "s", " ", "i", "n", "t", "o", " ", "3", ENDASH,
      "7", " ", "l", "o", "g", "i", "c", "a", "l", " ", "e", "p", "i", "c",
      "s", ".">>

DEFAULT_STORY_FORMAT ==
    <<"W", "r", "i", "t", "e", " ", "e", "a", "c", "h", " ", "u", "s", "e",
      "r", " ", "s", "t", "o", "r", "y", " ", "a", "s", ":", " ", "A", "s",
      " ", "a", " ", "<", "r", "o", "l", "e", ">", ",", " ", "I", " ", "w",
      "a", "n", "t", " ", "<", "g", "o", "a", "l", ">", " ", "s", "o", " ",
      "t", "h", "a", "t", " ", "<", "b", "e", "n", "e", "f", "i", "t", ">",
      ".">>

DEFAULT_DESCRIPTION_FORMAT ==
    <<"I", "n", "c", "l", "u", "d", "e", " ", "a", " ", "r", "e", "f", "e",
      "r", "e", "n", "c", "e", " ", "I", "D", ",", " ", "t", "h", "e", " ",
      "u", "s", "e", "r", " ", "s", "t", "o", "r", "y", ",", " ", "a", "n",
      "d", " ", "t", "h", "e", " ", "c", "u", "r", "r", "e", "n", "t", " ",
      "s", "t", "a", "t", "e", ".">>

DEFAULT_ACCEPTANCE_CRITERIA ==
    <<"P", "r", "o", "v", "i", "d", "e", " ", "5", ENDASH, "8", " ", "s",
      "p", "e", "c", "i", "f", "i", "c", ",", " ", "t", "e", "s", "t", "a",
      "b", "l", "e", " ", "c", "r", "i", "t", "e", "r", "i", "a", " ", "p",
      "e", "r", " ", "s", "t", "o", "r", "y", " ", "a", "s", " ", "p", "l",
      "a", "i", "n", " ", "t", "e", "x", "t", " ", "s", "t", "r", "i", "n",
      "g", "s", ".">>

\* f'  - "{key}": {cfg["guidance"]}'
PriorityLine(key, cfg) ==
    <<" ", " ", "-", " ", "\"">> \o key \o <<"\"", ":", " ">>
    \o PyStr(Lookup(cfg, K_guidance))

\* the generator expression of priority_block raises: cfg["guidance"] on a
\* value that is no dict, or on a dict without the key
PriorityLineRaises(priorities) ==
    \E i \in 1..Len(priorities.v) :
        \/ priorities.v[i][2].t # "obj"
        \/ ~HasKey(priorities.v[i][2], K_guidance)

\* the block with its entries in reverse order
PriorityBlockReversed(priorities) ==
    Join(<<"\n">>, [i \in 1..Len(priorities.v) |->
                       PriorityLine(priorities.v[Len(priorities.v) + 1 - i][1],
                                    priorities.v[Len(priorities.v) + 1 - i][2])])

\* "\n".join(... for key, cfg in priorities.items())
PriorityBlock(priorities) ==
    Join(<<"\n">>, [i \in 1..Len(priorities.v) |->
                       PriorityLine(priorities.v[i][1], priorities.v[i][2])])

\* the lookup falling back to the empty text
InstructionNoDefault(ai, key, default) == PyStr(Get(ai, key, Str(<< >>)))

\* {ai.get(key, default)} in the f-string
Instruction(ai, key, default) == PyStr(Get(ai, key, Str(default)))

build_prompt(sch, doc) ==
    IF sch.t # "obj" THEN Raise("AttributeError")
    ELSE IF Get(sch, K_ai, Obj(<< >>)).t # "obj" THEN Raise("AttributeError")
    ELSE LET ai == Get(Get(sch, K_ai, Obj(<< >>)), K_instructions, Obj(<< >>))
             priorities == Get(sch, K_priorities, Obj(<< >>))
         IN  IF priorities.t # "obj" THEN Raise("AttributeError")
             ELSE IF PriorityLineRaises(priorities) THEN Raise("KeyError")
             ELSE IF ai.t # "obj" THEN Raise("AttributeError")
             ELSE Return(
               << << <<"You are a skilled business analyst.", << >> >>,
                     <<"EPIC GROUPING:",
                       Instruction(ai, K_grouping, DEFAULT_GROUPING)>>,
                     <<"STORY FORMAT:",
                       Instruction(ai, K_story_format, DEFAULT_STORY_FORMAT)>>,
                     <<"STORY DESCRIPTION FORMAT:",
                       Instruction(ai, K_description_format,
                                   DEFAULT_DESCRIPTION_FORMAT)>>,
                     <<"ACCEPTANCE CRITERIA:",
                       Instruction(ai, K_acceptance_criteria,
                                   DEFAULT_ACCEPTANCE_CRITERIA)>>,
                     <<"PRIORITY", PriorityBlock(priorities)>>,
                     <<"OUTPUT", << >> >>,
                     <<"RULES:", << >> >> >>,
                  <<"--- DOCUMENT START ---", doc, "--- DOCUMENT END ---">> >>)

----------------------------------------------------------------------------
(* extract_json.  Both regular expressions are compiled with re.MULTILINE: *)
(* ^ matches at the start of the text and after every "\n", $ at the end   *)
(* of the text and before every "\n".  re.sub replaces every match, left   *)
(* to right, resuming right after each match.                              *)

Fence == <<BT, BT, BT>>
JsonTag == <<"j", "s", "o", "n">>
ExcerptLen == 500

\* the opening fence matched anywhere, not only at a line start
OpenFenceEndUnanchored(s, i) ==
    IF HasAt(s, i, Fence)
    THEN SkipSpace(s, IF HasAt(s, i + 3, JsonTag) THEN i + 7 ELSE i + 3)
    ELSE 0

\* ^```(?:json)?\s* matched at index i: the index right after the match,
\* 0 for no match
OpenFenceEnd(s, i) ==
    IF (i = 1 \/ s[i - 1] = "\n") /\ HasAt(s, i, Fence)
    THEN SkipSpace(s, IF HasAt(s, i + 3, JsonTag) THEN i + 7 ELSE i + 3)
    ELSE 0

\* \s*```$ matched at index i: the index right after the match, 0 for none
CloseFenceEnd(s, i) ==
    LET j == SkipSpace(s, i) IN
    IF HasAt(s, j, Fence) /\ (j + 3 > Len(s) \/ s[j + 3] = "\n")
    THEN j + 3
    ELSE 0

\* s without the characters at the indices i with lo <= i < hi for a span
\* <<lo, hi>> of spans
Without(s, spans) ==
    LET kept == SelectSeq([i \in 1..Len(s) |-> <<i, s[i]>>],
                          LAMBDA p : \A sp \in spans :
                                        ~(sp[1] <= p[1] /\ p[1] < sp[2]))
    IN  [i \in 1..Len(kept) |-> kept[i][2]]

\* re.sub(r"^```(?:json)?\s*", "", s, flags=re.MULTILINE).  A match starts
\* with a backtick at a line start and no match starts inside another, so
\* the left-to-right scan removes exactly the matches at all indices.
SubOpenFence(s) ==
    Without(s, {<<i, OpenFenceEnd(s, i)>> :
                   i \in {k \in 1..Len(s) : s[k] = BT /\ OpenFenceEnd(s, k) # 0}})

\* re.sub(r"\s*```$", "", s, flags=re.MULTILINE).  A match that starts
\* inside another ends where that one ends, so the left-to-right scan
\* removes exactly the union of the matches at all indices.
SubCloseFence(s) ==
    Without(s, {<<i, CloseFenceEnd(s, i)>> :
                   i \in {k \in 1..Len(s) : (IsSpace(s[k]) \/ s[k] = BT)
                                            /\ CloseFenceEnd(s, k) # 0}})

\* the three assignments to cleaned
Cleaned(text) ==
    Strip(SubCloseFence(Strip(SubOpenFence(Strip(text)))))

\* the excerpt one character short
ParseFailureShort(r, cleaned) ==
    SysExit("Failed to parse the AI response as JSON", <<r.msg, r.end>>,
            Prefix(cleaned, ExcerptLen - 1))

\* the sys.exit of the except branch, for decoder error r on text cleaned
ParseFailure(r, cleaned) ==
    SysExit("Failed to parse the AI response as JSON", <<r.msg, r.end>>,
            Prefix(cleaned, ExcerptLen))

extract_json(raw) ==
    IF raw.t # "str" THEN Raise("AttributeError")
    ELSE LET cleaned == Cleaned(raw.v)
             r == Loads(cleaned)
         IN  IF r.ok THEN Return(r.val) ELSE ParseFailure(r, cleaned)

----------------------------------------------------------------------------
(* validate_structure.  A warning is <<kind, name, priority, valid>>: the  *)
(* kind of line, the short description it names, the priority it names     *)
(* (<< >> on an epic line) and the set of keys it lists ({} on an epic     *)
(* line; the set is joined in its iteration order, which is not modelled). *)

EpicWarning(epic) ==
    <<"has no stories", PyStr(Get(epic, K_short_description, Str(<<"?">>))),
      << >>, {}>>

StoryWarning(story, p, valid) ==
    <<"has unknown priority",
      PyStr(Get(story, K_short_description, Str(<<"?">>))), PyStr(p), valid>>

\* if not epics
NoEpics(epics) == ~Truthy(epics)

\* the membership test skipped for a story without a priority
UnknownPrioritySkippingEmpty(p, valid) ==
    p.t = "str" /\ p.v # << >> /\ p.v \notin valid

\* p not in valid_priorities, for a hashable p (the keys are strings)
UnknownPriority(p, valid) == ~(p.t = "str" /\ p.v \in valid)

RECURSIVE StoryLoop(_, _, _, _)
\* for story in epic.get("stories", []), from story i on, with the
\* warnings appended so far
StoryLoop(stories, i, valid, warnings) ==
    IF i > Len(stories) THEN Return(warnings)
    ELSE IF stories[i].t # "obj" THEN Raise("AttributeError")
    ELSE LET p == Get(stories[i], K_priority, Str(<< >>)) IN
         IF ~Hashable(p) THEN Raise("TypeError")
         ELSE StoryLoop(stories, i + 1, valid,
                        IF UnknownPriority(p, valid)
                        THEN Append(warnings, StoryWarning(stories[i], p, valid))
                        ELSE warnings)

RECURSIVE EpicLoop(_, _, _, _)
\* for epic in epics, from epic i on, with the warnings appended so far
EpicLoop(epics, i, valid, warnings) ==
    IF i > Len(epics) THEN Return(warnings)
    ELSE IF epics[i].t # "obj" THEN Raise("AttributeError")
    ELSE LET w == IF ~Truthy(Get(epics[i], K_stories, None))
                  THEN Append(warnings, EpicWarning(epics[i]))
                  ELSE warnings
             stories == Get(epics[i], K_stories, Arr(<< >>))
         IN  IF ~Iterable(stories) THEN Raise("TypeError")
             ELSE LET r == StoryLoop(Items(stories), 1, valid, w) IN
                  IF r.kind # "return" THEN r
                  ELSE EpicLoop(epics, i + 1, valid, r.value)

\* set(schema.get("priorities", {}).keys())
ValidPriorities(sch) ==
    {Keys(Get(sch, K_priorities, Obj(<< >>)))[i] :
        i \in 1..Len(Get(sch, K_priorities, Obj(<< >>)).v)}

\* returns the warnings it prints, in order
validate_structure(dat, sch) ==
    IF dat.t # "obj" THEN Raise("AttributeError")
    ELSE LET epics == Get(dat, K_epics, Arr(<< >>)) IN
         IF NoEpics(epics) THEN SysExit("The AI returned no epics.", << >>, << >>)
         ELSE IF sch.t # "obj" THEN Raise("AttributeError")
         ELSE IF Get(sch, K_priorities, Obj(<< >>)).t # "obj"
              THEN Raise("AttributeError")
         ELSE IF ~Iterable(epics) THEN Raise("TypeError")
         ELSE EpicLoop(Items(epics), 1, ValidPriorities(sch), << >>)

----------------------------------------------------------------------------
(* print_summary: whether one of its subscripts raises KeyError           *)

print_summary_raises(dat) ==
    \E i \in 1..Len(Items(Lookup(dat, K_epics))) :
        LET epic == Items(Lookup(dat, K_epics))[i]
            stories == Items(Get(epic, K_stories, Arr(<< >>)))
        IN  \/ ~HasKey(epic, K_key)
            \/ ~HasKey(epic, K_short_description)
            \/ \E j \in 1..Len(stories) :
                   ~HasKey(stories[j], K_short_description)

----------------------------------------------------------------------------
(* main: one statement per action.  A stage that does not return ends the *)
(* process: sys.exit and an uncaught exception both unwind main, which     *)
(* holds no try block.                                                     *)

StageOrder ==
    <<"check_input", "load_schema", "resolve_model", "read_document",
      "build_prompt", "call_ai", "extract_json", "validate_structure",
      "write_artifact", "print_summary">>

StageIndex(stage) == CHOOSE i \in 1..Len(StageOrder) : StageOrder[i] = stage

\* main going on to the next statement after a sys.exit
NextStagePastExit(stage, result) ==
    IF result.kind \in {"return", "exit"} /\ StageIndex(stage) < Len(StageOrder)
    THEN StageOrder[StageIndex(stage) + 1]
    ELSE "exit"

\* main calling the model again after a failed call or an unusable answer
NextStageRetrying(stage, result) ==
    IF result.kind = "return" /\ StageIndex(stage) < Len(StageOrder)
    THEN StageOrder[StageIndex(stage) + 1]
    ELSE IF stage \in {"call_ai", "extract_json", "validate_structure"}
         THEN "call_ai"
         ELSE "exit"

\* the statement main runs after a stage that ended as result
NextStage(stage, result) ==
    IF result.kind = "return" /\ StageIndex(stage) < Len(StageOrder)
    THEN StageOrder[StageIndex(stage) + 1]
    ELSE "exit"

\* how the process stands after a stage that ended as result
Outcome(stage, result) ==
    CASE result.kind = "exit"  -> "sys.exit"
      [] result.kind = "raise" -> "exception"
      [] OTHER -> IF StageIndex(stage) = Len(StageOrder) THEN "ok" ELSE "running"

\* the control part of every statement of main
Step(stage, result) ==
    /\ pc = stage
    /\ pc' = NextStage(stage, result)
    /\ outcome' = Outcome(stage, result)
    /\ message' = IF result.kind = "return" THEN message ELSE result.value
    /\ trace' = Append(trace, stage)

\* lines 280-281
CheckInput ==
    /\ Step("check_input",
            IF input_exists THEN Return(None)
            ELSE SysExit("Input file not found", << >>, << >>))
    /\ UNCHANGED <<input_exists, schema_exists, env, schema, model, document,
                   prompts, raw_response, data, printed, stories_json,
                   completions, reply>>

----------------------------------------------------------------------------
(* The inputs: the environment, the schema file, the document, and what   *)
(* the language model answers.                                             *)

MaxPriorities == 2
MaxEpics == 2
MaxStrLen == 3

Unset == [set |-> FALSE, v |-> << >>]
Set(text) == [set |-> TRUE, v |-> text]

\* every environment: AI_MODEL unset, blank, or a name with or without
\* blanks around it; each credential unset, blank or present
AllEnvs ==
    {e \in [EnvNames -> {Unset, Set(<<" ">>), Set(<<"k">>), Set(<<" ", "m", "\t">>)}] :
        /\ \A n \in EnvNames \ {"AI_MODEL"} : e[n] # Set(<<" ", "m", "\t">>)}

NoEnv == [n \in EnvNames |-> Unset]

\* the environments of the full runs
MainEnvs ==
    { NoEnv,
      [NoEnv EXCEPT !["AI_MODEL"] = Set(<<"m">>)],
      [NoEnv EXCEPT !["AI_MODEL"] = Set(<<" ">>), !["GEMINI_API_KEY"] = Set(<<"k">>)] }

PriorityKeys == <<<<"c", "r", "i", "t", "i", "c", "a", "l">>, <<"h", "i", "g", "h">>, <<"l", "o", "w">>>>

\* a guidance text on one line, one with a line break inside, and one that
\* ends with a line break (a YAML block scalar)
Guidances == {<<"g">>, <<"a", "\n", "b">>, <<"c", "\n">>}

Cfg(guidance) == Obj(<< <<K_guidance, Str(guidance)>>, <<K_label, Str(<<"L">>)>> >>)

\* the priorities mappings: up to MaxPriorities distinct keys in any order,
\* each with a guidance text
PrioritiesDicts ==
    UNION { { Obj([i \in 1..n |-> <<PriorityKeys[ks[i]], Cfg(gs[i])>>]) :
                ks \in {f \in [1..n -> 1..Len(PriorityKeys)] :
                           \A i, j \in 1..n : i # j => f[i] # f[j]},
                gs \in [1..n -> Guidances] } : n \in 0..MaxPriorities }

InstructionKeys ==
    <<K_grouping, K_story_format, K_description_format, K_acceptance_criteria>>

\* the schema's own text for instruction key i
OwnText(i) == <<"o", "w", "n", " ">> \o InstructionKeys[i]

\* the instructions mapping holding exactly the keys whose index is in have
Instructions(have) ==
    Obj(SelectSeq([i \in 1..Len(InstructionKeys) |->
                      <<InstructionKeys[i], Str(OwnText(i))>>],
                  LAMBDA kv : \E i \in have : InstructionKeys[i] = kv[1]))

\* the ai sections: any subset of the instruction keys, or no instructions
AiSections ==
    {Obj(<< >>)} \cup
    {Obj(<< <<K_instructions, Instructions(have)>> >>) :
        have \in SUBSET (1..Len(InstructionKeys))}

\* a schema from its optional sections (<< >> for an absent one)
MkSchema(ai, priorities) ==
    Obj((IF ai = << >> THEN << >> ELSE << <<K_ai, ai[1]>> >>)
        \o (IF priorities = << >> THEN << >> ELSE << <<K_priorities, priorities[1]>> >>))

\* every schema of the shape of the data model, sections optional
AllSchemas ==
    {MkSchema(a, q) : a \in {<< >>} \cup {<<x>> : x \in AiSections},
                      q \in {<< >>} \cup {<<x>> : x \in PrioritiesDicts}}

FullSchema ==
    MkSchema(<<Obj(<< <<K_instructions, Instructions(1..Len(InstructionKeys))>> >>)>>,
             <<Obj([i \in 1..Len(PriorityKeys) |-> <<PriorityKeys[i], Cfg(<<"g">>)>>])>>)

\* the schemas of the full runs
MainSchemas == {FullSchema, Obj(<< >>)}

Documents == {<<"d", "o", "c">>}

\* json.dumps(value): the one-line text of a value
RECURSIVE Dumps(_)
Dumps(x) ==
    CASE x.t = "arr" ->
            <<"[">> \o Join(<<",", " ">>, [i \in 1..Len(x.v) |-> Dumps(x.v[i])])
            \o <<"]">>
      [] x.t = "obj" ->
            <<"{">>
            \o Join(<<",", " ">>,
                    [i \in 1..Len(x.v) |->
                        EncodeString(x.v[i][1]) \o <<":", " ">> \o Dumps(x.v[i][2])])
            \o <<"}">>
      [] OTHER -> Dump(x, 0)

Serialise(style, x) == IF style = "indent" THEN Dump(x, 0) ELSE Dumps(x)

\* what the model may put around its answer: <<before, after>>
Unfenced == << << >>, << >> >>
Padded == << <<" ", "\n">>, <<"\n", " ">> >>
OpenMarkers ==
    { <<BT, BT, BT, "\n">>,
      <<BT, BT, BT, "j", "s", "o", "n", "\n">>,
      <<" ", BT, BT, BT, "j", "s", "o", "n", " ", "\n", " ">> }
CloseMarkers ==
    { <<"\n", BT, BT, BT>>,
      <<BT, BT, BT>>,
      <<"\n", " ", BT, BT, BT, " ", "\n">> }
Fenced == OpenMarkers \X CloseMarkers
Wrappers == {Unfenced, Padded} \cup Fenced

Wrap(w, text) == w[1] \o text \o w[2]

\* a reply that carries no text
NoReply(kind) == <<kind, << >>, "", Unfenced>>

\* the text of a reply
ReplyText(r) ==
    IF r[1] = "json" THEN Wrap(r[4], Serialise(r[3], r[2])) ELSE Wrap(r[4], r[2])


\* stories and epics as the model may return them, sound and defective
Story(fields) == Obj(fields)
StoryHigh ==
    Story(<< <<K_short_description, Str(<<"s", "1">>)>>,
             <<K_priority, Str(PriorityKeys[2])>> >>)
StoryUrgent ==
    Story(<< <<K_gap_id, Str(<<"X", "-", "1">>)>>,
             <<K_short_description, Str(<<"s", "2">>)>>,
             <<K_priority, Str(<<"u", "r", "g", "e", "n", "t">>)>> >>)
StoryBare == Story(<< >>)
StoryListPriority == Story(<< <<K_priority, Arr(<<Str(PriorityKeys[2])>>)>> >>)

Epic(key, title, stories) ==
    Obj(<< <<K_key, Str(key)>>, <<K_short_description, Str(title)>>,
           <<K_stories, Arr(stories)>> >>)

\* epics of the shape of the data model, fields optional
SoundEpics ==
    { Epic(<<"e", "1">>, <<"x">>, <<StoryHigh>>),
      Epic(<<"e", "2">>, <<"y">>, << >>),
      Epic(<<"e", "3">>, <<"z">>, <<StoryUrgent, StoryHigh>>),
      Obj(<< <<K_stories, Arr(<<StoryBare, StoryUrgent>>)>> >>),
      Obj(<< <<K_short_description, Str(<<"n">>)>> >>) }

\* what else may stand where an epic should: a string, an epic whose
\* stories are null, a story whose priority is a list, a story that is a
\* string
DefectiveEpics ==
    { Str(<<"x">>),
      Obj(<< <<K_stories, None>> >>),
      Obj(<< <<K_stories, Arr(<<StoryListPriority>>)>> >>),
      Obj(<< <<K_stories, Arr(<<Str(<<"s">>)>>)>> >>) }

EpicSamples == SoundEpics \cup DefectiveEpics

\* the values whose "epics" is a list of up to MaxEpics samples, and the
\* values of another shape: a list, an object without epics, epics null
Backlogs ==
    UNION { { Obj(<< <<K_epics, Arr(es)>> >>) : es \in [1..n -> EpicSamples] } :
              n \in 0..MaxEpics }
    \cup { Arr(<< >>), Obj(<< >>), Obj(<< <<K_epics, None>> >>) }

\* prose, truncated and surplus JSON, the empty answer
Sorry ==
    <<"S", "o", "r", "r", "y", ",", " ", "I", " ", "c", "a", "n", "'", "t",
      " ", "h", "e", "l", "p", " ", "w", "i", "t", "h", " ", "t", "h", "a",
      "t", ".">>
Prose ==
    { << >>, Sorry,
      <<"{">>,
      <<"{", "\"", "e", "p", "i", "c", "s", "\"", ":", " ", "[">>,
      <<"[", "1", ",", "]">>,
      <<"\"", "a", "b">>,
      <<"{", "}", " ", "{", "}">>,
      <<"s", "e", "e", " ", BT, BT, BT, "x", BT, BT, BT, " ", "n", "o", "w">>,
      <<"J", "S", "O", "N", ":", "\n", "{", "}">> }

\* prose of n characters
Long(n) == [i \in 1..n |-> IF i % 7 = 0 /\ i < n THEN " " ELSE "x"]

\* the replies of the full runs
MainReplies ==
    { <<"json", b, "line", w>> :
        b \in Backlogs, w \in {Unfenced, <<<<BT, BT, BT, "j", "s", "o", "n", "\n">>, <<"\n", BT, BT, BT>>>>} }
    \cup { <<"text", Sorry, "", Unfenced>> }

----------------------------------------------------------------------------

\* lines 288, 95-102
LoadSchema ==
    /\ \E loaded \in MainSchemas :
          /\ Step("load_schema",
                  IF schema_exists THEN Return(loaded)
                  ELSE SysExit("schema.yaml not found", << >>, << >>))
          /\ schema' = IF schema_exists THEN loaded ELSE schema
    /\ UNCHANGED <<input_exists, schema_exists, env, model, document, prompts,
                   raw_response, data, printed, stories_json, completions,
                   reply>>

\* lines 289-290
ResolveModel ==
    /\ LET r == resolve_model(env) IN
          /\ Step("resolve_model", r)
          /\ model' = IF r.kind = "return" THEN r.value ELSE model
    /\ UNCHANGED <<input_exists, schema_exists, env, schema, document, prompts,
                   raw_response, data, printed, stories_json, completions,
                   reply>>

\* lines 292-293
ReadDocument ==
    /\ \E text \in Documents :
          /\ Step("read_document", Return(Str(text)))
          /\ document' = Str(text)
    /\ UNCHANGED <<input_exists, schema_exists, env, schema, model, prompts,
                   raw_response, data, printed, stories_json, completions,
                   reply>>

\* line 295
BuildPrompt ==
    /\ LET r == build_prompt(schema, document.v) IN
          /\ Step("build_prompt", r)
          /\ prompts' = IF r.kind = "return" THEN r.value ELSE prompts
    /\ UNCHANGED <<input_exists, schema_exists, env, schema, model, document,
                   raw_response, data, printed, stories_json, completions,
                   reply>>

\* line 296, 179-192: litellm.completion raises, or returns an answer whose
\* content is a text or None
CallAI ==
    /\ completions' = completions + 1
    /\ \/ /\ Step("call_ai", Raise("litellm completion error"))
          /\ reply' = NoReply("error")
          /\ UNCHANGED raw_response
       \/ /\ Step("call_ai", Return(None))
          /\ raw_response' = None
          /\ reply' = NoReply("empty")
       \/ \E r \in MainReplies :
             LET content == Str(ReplyText(r)) IN
             /\ Step("call_ai", Return(content))
             /\ raw_response' = content
             /\ reply' = r
    /\ UNCHANGED <<input_exists, schema_exists, env, schema, model, document,
                   prompts, data, printed, stories_json>>

\* line 298
ExtractJson ==
    /\ LET r == extract_json(raw_response) IN
          /\ Step("extract_json", r)
          /\ data' = IF r.kind = "return" THEN r.value ELSE data
    /\ UNCHANGED <<input_exists, schema_exists, env, schema, model, document,
                   prompts, raw_response, printed, stories_json, completions,
                   reply>>

\* validation that removes the epics it warns about
validated_dropping(dat, sch) ==
    IF dat.t = "obj" /\ HasKey(dat, K_epics) /\ Lookup(dat, K_epics).t = "arr"
    THEN DictSet(dat, K_epics,
                 Arr(SelectSeq(Lookup(dat, K_epics).v,
                               LAMBDA e : ~(e.t = "obj"
                                            /\ ~Truthy(Get(e, K_stories, None))))))
    ELSE dat

\* what validate_structure leaves in the object it was passed: it assigns to
\* no element of data
validated(dat, sch) == dat

\* line 299
ValidateStructure ==
    /\ LET r == validate_structure(data, schema) IN
          /\ Step("validate_structure", r)
          /\ printed' = IF r.kind = "return" THEN r.value ELSE printed
    /\ data' = validated(data, schema)
    /\ UNCHANGED <<input_exists, schema_exists, env, schema, model, document,
                   prompts, raw_response, stories_json, completions, reply>>

\* lines 301-303
WriteArtifact ==
    /\ Step("write_artifact", Return(None))
    /\ stories_json' = Str(Dump(data, 0))
    /\ UNCHANGED <<input_exists, schema_exists, env, schema, model, document,
                   prompts, raw_response, data, printed, completions, reply>>

\* lines 305-308
PrintSummary ==
    /\ Step("print_summary",
            IF print_summary_raises(data) THEN Raise("KeyError") ELSE Return(None))
    /\ UNCHANGED <<input_exists, schema_exists, env, schema, model, document,
                   prompts, raw_response, data, printed, stories_json,
                   completions, reply>>

\* the locals of main before its first statement, no stories.json on disk
Fresh ==
    /\ outcome = "running"
    /\ trace = << >>
    /\ schema = None
    /\ model = None
    /\ document = None
    /\ prompts = None
    /\ raw_response = None
    /\ data = None
    /\ message = None
    /\ printed = << >>
    /\ stories_json = None
    /\ completions = 0
    /\ reply = NoReply("none")

Init ==
    /\ pc = "check_input"
    /\ input_exists \in BOOLEAN
    /\ schema_exists \in BOOLEAN
    /\ env \in MainEnvs
    /\ Fresh

Next ==
    \/ CheckInput
    \/ LoadSchema
    \/ ResolveModel
    \/ ReadDocument
    \/ BuildPrompt
    \/ CallAI
    \/ ExtractJson
    \/ ValidateStructure
    \/ WriteArtifact
    \/ PrintSummary

Spec == Init /\ [][Next]_vars

----------------------------------------------------------------------------
(* The single functions on their whole input domains: main at the         *)
(* statement that calls the function, for every input it may meet there.   *)

\* the stages main has run when it reaches stage
Before(stage) == SubSeq(StageOrder, 1, StageIndex(stage) - 1)

\* main at line 289, under every environment
InitResolve ==
    /\ pc = "resolve_model"
    /\ outcome = "running"
    /\ trace = Before("resolve_model")
    /\ input_exists = TRUE
    /\ schema_exists = TRUE
    /\ env \in AllEnvs
    /\ schema = FullSchema
    /\ model = None
    /\ document = None
    /\ prompts = None
    /\ raw_response = None
    /\ data = None
    /\ message = None
    /\ printed = << >>
    /\ stories_json = None
    /\ completions = 0
    /\ reply = NoReply("none")

SpecResolve == InitResolve /\ [][ResolveModel]_vars

\* main at line 295, with every schema
InitPrompt ==
    /\ pc = "build_prompt"
    /\ outcome = "running"
    /\ trace = Before("build_prompt")
    /\ input_exists = TRUE
    /\ schema_exists = TRUE
    /\ env = [NoEnv EXCEPT !["AI_MODEL"] = Set(<<"m">>)]
    /\ schema \in AllSchemas
    /\ model = Str(<<"m">>)
    /\ document \in {Str(text) : text \in Documents}
    /\ prompts = None
    /\ raw_response = None
    /\ data = None
    /\ message = None
    /\ printed = << >>
    /\ stories_json = None
    /\ completions = 0
    /\ reply = NoReply("none")

SpecPrompt == InitPrompt /\ [][BuildPrompt]_vars

\* the strings of up to n characters over an alphabet
Strings(alphabet, n) == UNION {[1..k -> alphabet] : k \in 0..n}

\* JSON values whose strings hold backticks, blanks and line breaks
JsonSamples ==
    UNION { { Str(text), Arr(<<Str(<<"a">>), Str(text)>>),
              Obj(<< <<K_key, Str(text)>> >>) } :
              text \in Strings({BT, "x", " ", "\n"}, MaxStrLen) }
    \cup { None, [t |-> "num", v |-> <<"1", "2">>], Arr(<< >>), Obj(<< >>),
           Obj(<< <<K_epics, Arr(<<Epic(<<"e", "1">>, <<"x">>, <<StoryUrgent>>)>>)>> >>) }

\* every reply with a text: a JSON value in either style, or prose, short
\* or around ExcerptLen characters long, in every wrapper
AllReplies ==
    { <<"json", j, style, w>> :
        j \in JsonSamples, style \in {"line", "indent"}, w \in Wrappers }
    \cup { <<"text", text, "", w>> :
             text \in Prose \cup {Long(n) : n \in {ExcerptLen - 1, ExcerptLen,
                                                   ExcerptLen + 1, ExcerptLen + 7}},
             w \in Wrappers }

\* main at line 298, with every reply
InitExtract ==
    /\ pc = "extract_json"
    /\ outcome = "running"
    /\ trace = Before("extract_json")
    /\ input_exists = TRUE
    /\ schema_exists = TRUE
    /\ env = [NoEnv EXCEPT !["AI_MODEL"] = Set(<<"m">>)]
    /\ schema = FullSchema
    /\ model = Str(<<"m">>)
    /\ document \in {Str(text) : text \in Documents}
    /\ prompts = build_prompt(schema, document.v).value
    /\ reply \in AllReplies
    /\ raw_response = Str(ReplyText(reply))
    /\ data = None
    /\ message = None
    /\ printed = << >>
    /\ stories_json = None
    /\ completions = 1

SpecExtract == InitExtract /\ [][ExtractJson]_vars

----------------------------------------------------------------------------
(* Properties of the full run (Spec) *)

Ran(stage) == \E i \in 1..Len(trace) : trace[i] = stage
LastStage == IF trace = << >> THEN "" ELSE trace[Len(trace)]

\* the run ended in stage without success and without an artifact
Stopped(stage) ==
    /\ pc = "exit"
    /\ LastStage = stage
    /\ outcome \in {"sys.exit", "exception"}
    /\ stories_json = None

\* a variable that is defined and holds more than whitespace
Present(e, name) ==
    e[name].set /\ \E i \in 1..Len(e[name].v) : ~IsSpace(e[name].v[i])

NoModelAvailable(e) == \A name \in EnvNames : ~Present(e, name)

\* the number of epics a parsed value holds
EpicCount(dat) ==
    IF dat.t = "obj" /\ HasKey(dat, K_epics) /\ Lookup(dat, K_epics).t = "arr"
    THEN Len(Lookup(dat, K_epics).v)
    ELSE 0

\* C1: the stages run in the fixed order, each fatal condition (missing
\* input file, missing schema, no resolvable model, failed model call,
\* unparseable response, zero epics) ends the run in the stage that meets
\* it with no later stage run and no artifact written, and the artifact is
\* written only when none of them occurred.
C1_StagesInOrder ==
    /\ trace = SubSeq(StageOrder, 1, Len(trace))
    /\ (Ran("check_input") /\ ~input_exists) => Stopped("check_input")
    /\ (Ran("load_schema") /\ ~schema_exists) => Stopped("load_schema")
    /\ (Ran("resolve_model") /\ NoModelAvailable(env)) => Stopped("resolve_model")
    /\ reply[1] = "error" => Stopped("call_ai")
    /\ (Ran("extract_json") /\ reply[1] = "text") => Stopped("extract_json")
    /\ (Ran("validate_structure") /\ reply[1] = "json" /\ EpicCount(reply[2]) = 0)
          => Stopped("validate_structure")
    /\ stories_json # None =>
          /\ Ran("write_artifact")
          /\ input_exists /\ schema_exists /\ ~NoModelAvailable(env)
          /\ reply[1] = "json" /\ EpicCount(reply[2]) >= 1

\* a run that parsed a reply without epics and stopped in validation
C1_Witness ==
    /\ reply[1] = "json" /\ EpicCount(reply[2]) = 0
    /\ Stopped("validate_structure")
    /\ message.t = "msg"

\* C2 (as claimed): validate_structure ends the run if and only if the
\* parsed value holds zero epics; with at least one epic it returns,
\* whatever the defects of the value, and main goes on to write.
C2_StopsOnlyOnNoEpics ==
    Ran("validate_structure") =>
        ((pc = "exit" /\ LastStage = "validate_structure") <=> EpicCount(data) = 0)

\* a backlog of the shape of the data model: epics are objects, stories a
\* list of objects when present, short descriptions and priorities strings
\* when present
IsStory(st) ==
    /\ st.t = "obj"
    /\ HasKey(st, K_priority) => Lookup(st, K_priority).t = "str"
    /\ HasKey(st, K_short_description) => Lookup(st, K_short_description).t = "str"

IsEpic(e) ==
    /\ e.t = "obj"
    /\ HasKey(e, K_short_description) => Lookup(e, K_short_description).t = "str"
    /\ HasKey(e, K_stories) =>
          /\ Lookup(e, K_stories).t = "arr"
          /\ \A j \in 1..Len(Lookup(e, K_stories).v) : IsStory(Lookup(e, K_stories).v[j])

IsBacklog(dat) ==
    /\ EpicCount(dat) >= 1
    /\ \A i \in 1..EpicCount(dat) : IsEpic(Lookup(dat, K_epics).v[i])

EpicsOf(dat) == Lookup(dat, K_epics).v
StoriesOf(e) == IF HasKey(e, K_stories) THEN Lookup(e, K_stories).v ELSE << >>
TitleOf(x) ==
    IF HasKey(x, K_short_description) THEN Lookup(x, K_short_description).v
    ELSE <<"?">>
\* a story without a priority is read as having the empty priority
PriorityOf(st) == IF HasKey(st, K_priority) THEN Lookup(st, K_priority).v ELSE << >>
DeclaredKeys(sch) ==
    IF sch.t = "obj" /\ HasKey(sch, K_priorities)
    THEN {Lookup(sch, K_priorities).v[i][1] : i \in 1..Len(Lookup(sch, K_priorities).v)}
    ELSE {}

\* an upper bound of the number of stories of an epic of dat
LongestStories(dat) ==
    CHOOSE n \in 0..Len(Dumps(dat)) :
        /\ \A i \in 1..EpicCount(dat) : Len(StoriesOf(EpicsOf(dat)[i])) <= n
        /\ \E i \in 1..EpicCount(dat) : Len(StoriesOf(EpicsOf(dat)[i])) = n

\* the warnings an epic calls for: one for the epic if it has no story,
\* then one per story, in order, whose priority is no declared key
WarningsFor(e, keys) ==
    (IF StoriesOf(e) = << >> THEN << <<"has no stories", TitleOf(e), << >>, {}>> >>
     ELSE << >>)
    \o LET unknown == SelectSeq(StoriesOf(e), LAMBDA st : PriorityOf(st) \notin keys)
       IN  [j \in 1..Len(unknown) |->
               <<"has unknown priority", TitleOf(unknown[j]), PriorityOf(unknown[j]), keys>>]

\* C3: for a backlog with at least one epic, validate_structure returns and
\* the warnings it prints are, in backlog order, one per epic without
\* stories (naming its short description) and one per story whose priority
\* is not a key of the schema's priorities (naming the story and the
\* priority, listing the keys), and nothing else; their number is the
\* number of such epics plus the number of such stories.
C3_WarningsExact ==
    (Ran("validate_structure") /\ IsBacklog(data)) =>
        /\ ~(pc = "exit" /\ LastStage = "validate_structure")
        /\ printed = Join(<< >>, [i \in 1..EpicCount(data) |->
                                     WarningsFor(EpicsOf(data)[i], DeclaredKeys(schema))])
        /\ Len(printed) =
              Cardinality({i \in 1..EpicCount(data) : StoriesOf(EpicsOf(data)[i]) = << >>})
              + Cardinality({ij \in (1..EpicCount(data)) \X (1..LongestStories(data)) :
                                /\ ij[2] <= Len(StoriesOf(EpicsOf(data)[ij[1]]))
                                /\ PriorityOf(StoriesOf(EpicsOf(data)[ij[1]])[ij[2]])
                                      \notin DeclaredKeys(schema)})

\* a validated backlog that drew a warning of each kind, a story without
\* priority among them
C3_Witness ==
    /\ Ran("validate_structure") /\ IsBacklog(data)
    /\ \E i, j, k \in 1..Len(printed) :
          /\ printed[i][1] = "has no stories"
          /\ printed[j][1] = "has unknown priority" /\ printed[j][3] = << >>
          /\ printed[k][1] = "has unknown priority" /\ printed[k][3] # << >>

\* C4: after validate_structure the backlog is the value extract_json
\* returned, stories of unknown priority and epics without stories
\* included, and stories.json holds exactly that value.
C4_PersistedIsParsed ==
    /\ Ran("validate_structure") => Return(data) = extract_json(raw_response)
    /\ stories_json # None =>
          /\ Loads(stories_json.v).ok
          /\ Return(Loads(stories_json.v).val) = extract_json(raw_response)

\* an artifact written after warnings about an epic without stories
C4_Witness ==
    /\ stories_json # None
    /\ \E i \in 1..Len(printed) : printed[i][1] = "has no stories"
    /\ \E i \in 1..EpicCount(data) : StoriesOf(EpicsOf(data)[i]) = << >>

\* C10: the model is called at most once in a run; a failed call, an
\* unparseable response or a backlog without epics ends the run, which
\* takes no further step.
C10_AtMostOneCall ==
    /\ completions = Cardinality({i \in 1..Len(trace) : trace[i] = "call_ai"})
    /\ completions <= 1
    /\ outcome \in {"sys.exit", "exception"} => (pc = "exit" /\ ~ENABLED Next)

\* a run ended by an unparseable response after its one call
C10_Witness ==
    /\ reply[1] = "text"
    /\ Stopped("extract_json")
    /\ completions = 1

----------------------------------------------------------------------------
(* Properties of extract_json (SpecExtract) *)

\* C7: for a JSON value serialised in either style and wrapped in an
\* opening fence (bare or tagged json) and a closing fence, with whitespace
\* around, or left unfenced, extract_json returns the value, the same as
\* for the unfenced text alone; backticks inside its strings stay.
C7_FencedRoundTrip ==
    (LastStage = "extract_json" /\ reply[1] = "json") =>
        /\ pc = "validate_structure" /\ outcome = "running"
        /\ data = reply[2]
        /\ extract_json(Str(Serialise(reply[3], reply[2]))) = Return(data)

\* a fenced reply whose value holds a string of three backticks
C7_Witness ==
    /\ LastStage = "extract_json"
    /\ reply[1] = "json" /\ reply[4] \in Fenced
    /\ reply[2] = Arr(<<Str(<<"a">>), Str(<<BT, BT, BT>>)>>)
    /\ reply[3] = "indent"
    /\ data = reply[2]

\* C8: when the text left after stripping the fences is no JSON value, the
\* empty text included, extract_json returns nothing and exits through the
\* one parse-error message, which carries the decoder's error and the first
\* 500 characters of the cleaned text (all of it when shorter).
C8_ParseFailureMessage ==
    (LastStage = "extract_json" /\ reply[1] = "text") =>
        /\ pc = "exit" /\ outcome = "sys.exit"
        /\ data = None
        /\ ~Loads(reply[2]).ok
        /\ message.v = << "Failed to parse the AI response as JSON",
                          <<Loads(reply[2]).msg, Loads(reply[2]).end>>,
                          IF Len(reply[2]) <= 500 THEN reply[2]
                          ELSE [i \in 1..500 |-> reply[2][i]] >>

\* fenced prose longer than the excerpt, cut to 500 characters
C8_Witness ==
    /\ LastStage = "extract_json"
    /\ reply[1] = "text" /\ reply[4] \in Fenced
    /\ Len(reply[2]) > 500
    /\ Len(message.v[3]) = 500

----------------------------------------------------------------------------
(* Properties of build_prompt (SpecPrompt) *)

\* the <<key, cfg>> pairs of the schema's priorities, in iteration order
PrioritiesOf(sch) ==
    IF HasKey(sch, K_priorities) THEN Lookup(sch, K_priorities).v ELSE << >>
GuidanceOf(kv) == Lookup(kv[2], K_guidance).v

\* the priority block of the system prompt
BlockOf(p) == p[1][6][2]

Breaks(text) == Cardinality({i \in 1..Len(text) : text[i] = "\n"})
LineCount(text) == IF text = << >> THEN 0 ELSE Breaks(text) + 1

\* the index at which line k of a text starts (k from 1 to LineCount + 1)
LineStart(text, k) ==
    IF k = 1 THEN 1
    ELSE 1 + CHOOSE i \in 1..(Len(text) + 1) :
                 /\ i = Len(text) + 1 \/ text[i] = "\n"
                 /\ Cardinality({j \in 1..(i - 1) : text[j] = "\n"}) = k - 2

\* lines first to last of a text, without the final line break
LinesOf(text, first, last) ==
    SubSeq(text, LineStart(text, first), LineStart(text, last + 1) - 2)

EntryHead(key) == <<" ", " ", "-", " ", "\"">> \o key \o <<"\"", ":", " ">>

\* the key an entry line quotes
QuotedKey(line) ==
    SubSeq(line, 6, (CHOOSE q \in 6..Len(line) :
                        line[q] = "\"" /\ \A r \in 6..(q - 1) : line[r] # "\"") - 1)

\* the line of the block on which the entry of priority i starts when every
\* entry starts on a new line
EntryLine(ps, i) ==
    i + Cardinality(UNION {{<<k, j>> : j \in {n \in 1..Len(GuidanceOf(ps[k])) :
                                                GuidanceOf(ps[k])[n] = "\n"}}
                              : k \in 1..(i - 1)})

\* C5 (as claimed): the priority block holds exactly one line per priority
\* key, in the schema's order, and lists the set of keys validation checks.
C5_OneLinePerKey ==
    (LastStage = "build_prompt" /\ pc = "call_ai") =>
        LET block == BlockOf(prompts)
            ps == PrioritiesOf(schema)
        IN  /\ LineCount(block) = Len(ps)
            /\ \A i \in 1..Len(ps) :
                  HasAt(LinesOf(block, i, i), 1, EntryHead(ps[i][1]))
            /\ {QuotedKey(LinesOf(block, i, i)) : i \in 1..Len(ps)}
                  = ValidPriorities(schema)

\* C5 (amended): the priority block holds exactly one entry
\* `  - "<key>": <guidance>` per priority key, in the schema's order, each
\* starting on a new line, so it has one line per key plus one per line
\* break inside a guidance text; the keys it quotes are the set validation
\* checks.
C5_OneEntryPerKey ==
    (LastStage = "build_prompt" /\ pc = "call_ai") =>
        LET block == BlockOf(prompts)
            ps == PrioritiesOf(schema)
        IN  /\ LineCount(block) = EntryLine(ps, Len(ps) + 1) - 1
            /\ \A i \in 1..Len(ps) :
                  LinesOf(block, EntryLine(ps, i), EntryLine(ps, i + 1) - 1)
                     = EntryHead(ps[i][1]) \o GuidanceOf(ps[i])
            /\ {QuotedKey(LinesOf(block, EntryLine(ps, i), EntryLine(ps, i)))
                   : i \in 1..Len(ps)} = ValidPriorities(schema)

\* a block of two entries, the first of which spans two lines
C5_Witness ==
    /\ LastStage = "build_prompt" /\ pc = "call_ai"
    /\ Len(PrioritiesOf(schema)) = 2
    /\ Breaks(GuidanceOf(PrioritiesOf(schema)[1])) = 1
    /\ Breaks(GuidanceOf(PrioritiesOf(schema)[2])) = 0
    /\ LineCount(BlockOf(prompts)) = 3

\* the schema holds instruction key i
HasInstruction(sch, i) ==
    /\ HasKey(sch, K_ai)
    /\ HasKey(Lookup(sch, K_ai), K_instructions)
    /\ HasKey(Lookup(Lookup(sch, K_ai), K_instructions), InstructionKeys[i])

Defaults ==
    <<DEFAULT_GROUPING, DEFAULT_STORY_FORMAT, DEFAULT_DESCRIPTION_FORMAT,
      DEFAULT_ACCEPTANCE_CRITERIA>>

\* C6: build_prompt never raises, whichever instruction keys (or the whole
\* instructions section) the schema lacks; under each of the four headings
\* stands the schema's own text when the key is present and a non-empty
\* built-in text when it is missing.
C6_DefaultsForMissingKeys ==
    LastStage = "build_prompt" =>
        /\ pc = "call_ai" /\ outcome = "running"
        /\ \A i \in 1..Len(InstructionKeys) :
              IF HasInstruction(schema, i)
              THEN prompts[1][i + 1][2]
                      = Lookup(Lookup(Lookup(schema, K_ai), K_instructions),
                               InstructionKeys[i]).v
              ELSE /\ prompts[1][i + 1][2] = Defaults[i]
                   /\ prompts[1][i + 1][2] # << >>

\* a prompt built from a schema holding the grouping text only
C6_Witness ==
    /\ LastStage = "build_prompt" /\ pc = "call_ai"
    /\ HasInstruction(schema, 1)
    /\ \A i \in 2..Len(InstructionKeys) : ~HasInstruction(schema, i)
    /\ prompts[1][2][2] = OwnText(1)
    /\ prompts[1][3][2] = DEFAULT_STORY_FORMAT

----------------------------------------------------------------------------
(* Properties of resolve_model (SpecResolve) *)

\* a text without the whitespace around it
Trimmed(text) ==
    LET solid == {i \in 1..Len(text) : ~IsSpace(text[i])} IN
    IF solid = {} THEN << >>
    ELSE SubSeq(text, CHOOSE i \in solid : \A j \in solid : i <= j,
                      CHOOSE i \in solid : \A j \in solid : i >= j)

\* the first entry of _MODEL_DEFAULTS whose credential is present, 0 for none
FirstCredential(e) ==
    LET have == {i \in 1..Len(MODEL_DEFAULTS) : Present(e, MODEL_DEFAULTS[i][1])} IN
    IF have = {} THEN 0 ELSE CHOOSE i \in have : \A j \in have : i <= j

\* C9 (as claimed): resolve_model returns the value of AI_MODEL when it is
\* not blank, else the default model of the first present credential, and
\* fails if and only if neither is present.
C9_ExplicitVerbatim ==
    LastStage = "resolve_model" =>
        /\ Present(env, "AI_MODEL") =>
              (pc = "read_document" /\ model = Str(env["AI_MODEL"].v))
        /\ (~Present(env, "AI_MODEL") /\ FirstCredential(env) # 0) =>
              (pc = "read_document"
               /\ model = Str(MODEL_DEFAULTS[FirstCredential(env)][2]))
        /\ (pc = "exit" /\ outcome = "sys.exit") <=> NoModelAvailable(env)

\* C9 (amended): resolve_model returns the value of AI_MODEL with the
\* whitespace around it removed when it is not blank, else the default
\* model of the first present credential, and fails if and only if neither
\* is present.
C9_ExplicitTrimmed ==
    LastStage = "resolve_model" =>
        /\ Present(env, "AI_MODEL") =>
              (pc = "read_document" /\ model = Str(Trimmed(env["AI_MODEL"].v)))
        /\ (~Present(env, "AI_MODEL") /\ FirstCredential(env) # 0) =>
              (pc = "read_document"
               /\ model = Str(MODEL_DEFAULTS[FirstCredential(env)][2]))
        /\ (pc = "exit" /\ outcome = "sys.exit") <=> NoModelAvailable(env)

\* an explicit value with whitespace around it, returned without it while
\* a credential is present too
C9_Witness ==
    /\ LastStage = "resolve_model" /\ pc = "read_document"
    /\ Present(env, "AI_MODEL")
    /\ FirstCredential(env) # 0
    /\ Len(model.v) < Len(env["AI_MODEL"].v)
    /\ model = Str(Trimmed(env["AI_MODEL"].v))

====
